---- MODULE Spec2Model ----
(***************************************************************************)
(* Laptop recommendation system: the recommendation engine                 *)
(* (recommendation_engine.py), the chatbot that feeds it (chatbot.py) and  *)
(* the two endpoints of the service (main_flask.py), and the store of the  *)
(* catalog (data_manager.py).                                              *)
(*                                                                         *)
(* Python dictionaries are TLA+ functions with a string domain; a key      *)
(* that is absent, or present with the value None, is a key outside the    *)
(* DOMAIN (the code reads such keys with .get or tests "is not None", so   *)
(* it does not tell the two apart).  Prices, budgets, hours and            *)
(* hundredths of a kilogram are integers; a score is an exact fraction     *)
(* kept as its numerator over ScoreDen(budget).                            *)
(***************************************************************************)
EXTENDS Integers, Sequences, FiniteSets, TLC

VARIABLES
    laptop_data,     \* RecommendationEngine.laptop_data: the catalog
    pending,         \* input of the call under test (engine arguments, a message), or NoRequest
    call,            \* the engine call made by the latest operation, or NoCall
    conversations,   \* ChatBot.conversations: id -> preferences, messages, stage
                     \* (in ConcurrentSpec: id -> the reference of that dict in heap)
    response,        \* the ChatResponse of the latest process_message, or NoResponse
    served,          \* history: the arguments and result of every engine call, in order
    data_file,       \* the file laptops.json of the data directory
    uuids,           \* how many times uuid.uuid4() has been called by the data manager
    ended,           \* how the latest DataManager call ended, or NoReturn
    heap,            \* the conversation dicts as objects, by reference
    executions       \* the process_message executions in progress: position and locals

vars ==
    <<laptop_data, pending, call, conversations, response, served,
      data_file, uuids, ended, heap, executions>>

----------------------------------------------------------------------------
(* Bounds of the model *)

MaxCatalog == 3      \* longest catalog of the engine specification
MaxTurns == 3        \* process_message calls in one behaviour
MaxCalls == 3        \* engine calls after which the recommendations endpoint rests
MaxTokens == 3       \* longest message of the extraction specification

----------------------------------------------------------------------------
(* Python helpers *)

Empty == <<>>        \* the empty dict {} and the empty list []

Has(d, k) == k \in DOMAIN d

\* no laptops.json in the data directory
NoFile == [exists |-> FALSE]

NoReturn == [op |-> "none"]

\* where the store and the executions rest while another part is exercised
StoreUnused ==
    data_file = NoFile /\ uuids = 0 /\ ended = NoReturn /\ heap = <<>> /\ executions = <<>>

\* dict.get(k, default)
Get(d, k, default) == IF k \in DOMAIN d THEN d[k] ELSE default

Min(a, b) == IF a <= b THEN a ELSE b

\* dict.update(other)
Update(d, other) == other @@ d

\* list[:n]
Take(s, n) == SubSeq(s, 1, Min(n, Len(s)))

\* str.lower(), and the case folding of re.IGNORECASE, on the strings of
\* the model: the strings that are not all lower case, with their images
lower_case ==
    ("Dell" :> "dell") @@ ("DELL" :> "dell") @@ ("Apple" :> "apple")
    @@ ("Asus" :> "asus") @@ ("MSI" :> "msi") @@ ("HP" :> "hp")
    @@ ("Lenovo" :> "lenovo") @@ ("Acer" :> "acer") @@ ("RAM" :> "ram")
    @@ ("GB" :> "gb") @@ ("TB" :> "tb") @@ ("SSD" :> "ssd") @@ ("GPU" :> "gpu")
    @@ ("Hello" :> "hello") @@ ("Hi" :> "hi") @@ ("A" :> "a")

Lower(s) == IF s \in DOMAIN lower_case THEN lower_case[s] ELSE s

----------------------------------------------------------------------------
(* models.py: UsageType *)

GAMING == "gaming"
BUSINESS == "business"
STUDENT == "student"
CREATIVE == "creative"
PROGRAMMING == "programming"
GENERAL == "general"

UsageType == {GAMING, BUSINESS, STUDENT, CREATIVE, PROGRAMMING, GENERAL}

\* a usage_type value that is no key of usage_requirements
UNKNOWN == "unknown"

----------------------------------------------------------------------------
(* RecommendationEngine.__init__: usage_requirements.                      *)
(* Importance weights are in twentieths (0.4 = 8/20, 0.25 = 5/20).         *)

usage_requirements ==
    [gaming |->
        [min_ram |-> 16, min_storage |-> 512, gpu_required |-> TRUE,
         processor_keywords |-> <<"i7", "i9", "ryzen 7", "ryzen 9">>,
         importance |-> [gpu |-> 8, processor |-> 6, ram |-> 4, display |-> 2]],
     business |->
        [min_ram |-> 8, min_storage |-> 256, min_battery_life |-> 8,
         processor_keywords |-> <<"i5", "i7", "ryzen 5", "ryzen 7">>,
         importance |-> [battery_life |-> 8, weight |-> 6, processor |-> 4, ram |-> 2]],
     student |->
        [min_ram |-> 8, min_storage |-> 256, min_battery_life |-> 6,
         processor_keywords |-> <<"i3", "i5", "ryzen 3", "ryzen 5">>,
         importance |-> [price |-> 8, battery_life |-> 6, weight |-> 4, storage |-> 2]],
     creative |->
        [min_ram |-> 16, min_storage |-> 512, gpu_required |-> TRUE,
         processor_keywords |-> <<"i7", "i9", "ryzen 7", "ryzen 9">>,
         importance |-> [display |-> 8, gpu |-> 6, ram |-> 4, processor |-> 2]],
     programming |->
        [min_ram |-> 16, min_storage |-> 512,
         processor_keywords |-> <<"i5", "i7", "ryzen 5", "ryzen 7">>,
         importance |-> [processor |-> 8, ram |-> 6, battery_life |-> 4, storage |-> 2]],
     general |->
        [min_ram |-> 8, min_storage |-> 256,
         processor_keywords |-> <<"i5", "i7", "ryzen 5">>,
         importance |-> [price |-> 8, battery_life |-> 6, processor |-> 4, ram |-> 2]]]

\* usage_requirements.get(usage_type, usage_requirements[UsageType.GENERAL])
profile_or_general(usage_type) ==
    Get(usage_requirements, usage_type, usage_requirements[GENERAL])

----------------------------------------------------------------------------
(* The products of the model.  keyword_in is the substring test           *)
(* keyword.lower() in laptop["processor"].lower() on their descriptions.   *)

keyword_in(keyword, processor) ==
    CASE processor = "Intel Core i7-1165G7" -> keyword = "i7"
      [] processor = "Intel Core i5-1135G7" -> keyword = "i5"
      [] processor = "Intel Core i3-1115G4" -> keyword = "i3"
      [] processor = "AMD Ryzen 9 5900HX" -> keyword = "ryzen 9"
      [] processor = "AMD Ryzen 5 5600U" -> keyword = "ryzen 5"
      [] processor = "i7" -> keyword = "i7"
      [] OTHER -> FALSE

Products ==
    { [id |-> "1", model |-> "XPS 15", brand |-> "Dell", price |-> 500, processor |-> "Intel Core i7-1165G7",
       ram |-> 16, storage |-> 512, gpu |-> "NVIDIA RTX 3060"],
      [id |-> "2", model |-> "G15", brand |-> "dell", price |-> 500, processor |-> "Intel Core i7-1165G7",
       ram |-> 16, storage |-> 512, gpu |-> "NVIDIA RTX 3060"],
      [id |-> "3", model |-> "ROG Strix", brand |-> "Asus", price |-> 550, processor |-> "AMD Ryzen 9 5900HX",
       ram |-> 16, storage |-> 512, gpu |-> "NVIDIA RTX 3060", battery_life |-> 6,
       weight |-> 230],
      [id |-> "4", model |-> "Raider", brand |-> "MSI", price |-> 600, processor |-> "AMD Ryzen 9 5900HX",
       ram |-> 32, storage |-> 1000, gpu |-> "NVIDIA RTX 4070", weight |-> 250],
      [id |-> "5", model |-> "MacBook Air M2", brand |-> "Apple", price |-> 1100, processor |-> "Apple M2",
       ram |-> 8, storage |-> 256, gpu |-> "Apple M2 GPU", battery_life |-> 18,
       weight |-> 124],
      [id |-> "6", model |-> "Pavilion", brand |-> "HP", price |-> 500, processor |-> "Intel Core i5-1135G7",
       ram |-> 8, storage |-> 256, gpu |-> "None", battery_life |-> 8, weight |-> 150],
      [id |-> "7", model |-> "IdeaPad", brand |-> "Lenovo", price |-> 550, processor |-> "AMD Ryzen 5 5600U",
       ram |-> 16, storage |-> 512, battery_life |-> 12],
      [id |-> "8", model |-> "Aspire", brand |-> "Acer", price |-> 450, processor |-> "Intel Core i3-1115G4",
       ram |-> 4, storage |-> 128, gpu |-> "Intel UHD"] }

\* catalogs: lists of at most n products with distinct ids
RECURSIVE CatalogsUpTo(_)
CatalogsUpTo(n) ==
    IF n = 0 THEN {Empty}
    ELSE LET shorter == CatalogsUpTo(n - 1)
         IN  shorter \cup
             { Append(c, p) : c \in {s \in shorter : Len(s) = n - 1},
                              p \in Products }

Distinct(c) == \A i, j \in 1..Len(c) : i # j => c[i].id # c[j].id

Catalogs == { c \in CatalogsUpTo(MaxCatalog) : Distinct(c) }

----------------------------------------------------------------------------
(* RecommendationEngine._filter_laptops.  The budget comes in tenths       *)
(* (budget10 = 10 * budget) so that the relaxed budget * 1.1 is exact.     *)

\* laptop.get("gpu") and laptop.get("gpu") != "None"
has_gpu(laptop) ==
    /\ Has(laptop, "gpu")
    /\ laptop["gpu"] # ""
    /\ laptop["gpu"] # "None"

\* mutant: the budget itself is excluded
within_budget_below(laptop, budget10) == 10 * laptop["price"] < budget10

\* laptop["price"] <= budget
within_budget(laptop, budget10) == 10 * laptop["price"] <= budget10

\* laptop["ram"] >= min_ram
enough_ram(laptop, min_ram) == laptop["ram"] >= min_ram

\* laptop["storage"] >= min_storage
enough_storage(laptop, min_storage) == laptop["storage"] >= min_storage

\* laptop["brand"].lower() == brand_preference.lower()
brand_matches(laptop, brand_preference) ==
    Lower(laptop["brand"]) = Lower(brand_preference)

\* mutant: the profile's gpu_required is ignored
gpu_wanted_by_caller_only(usage_reqs, prefer_gpu) == prefer_gpu

\* usage_reqs.get("gpu_required", False) or prefer_gpu
gpu_wanted(usage_reqs, prefer_gpu) ==
    Get(usage_reqs, "gpu_required", FALSE) \/ prefer_gpu

filter_laptops(data, budget10, usage_type, args) ==
    LET usage_reqs == profile_or_general(usage_type)
        min_ram == IF Has(args, "min_ram") THEN args["min_ram"]
                   ELSE Get(usage_reqs, "min_ram", 4)
        min_storage == IF Has(args, "min_storage") THEN args["min_storage"]
                       ELSE Get(usage_reqs, "min_storage", 128)
        by_budget == SelectSeq(data, LAMBDA laptop : within_budget(laptop, budget10))
        by_ram == SelectSeq(by_budget, LAMBDA laptop : enough_ram(laptop, min_ram))
        by_storage == SelectSeq(by_ram, LAMBDA laptop : enough_storage(laptop, min_storage))
        by_brand ==
            IF Has(args, "brand_preference") /\ args["brand_preference"] # ""
            THEN SelectSeq(by_storage, LAMBDA laptop :
                     brand_matches(laptop, args["brand_preference"]))
            ELSE by_storage
        by_gpu ==
            IF gpu_wanted(usage_reqs, args["prefer_gpu"])
            THEN SelectSeq(by_brand, has_gpu)
            ELSE by_brand
    IN  by_gpu

----------------------------------------------------------------------------
(* RecommendationEngine._score_laptops.  A score s is kept as the integer  *)
(* s * ScoreDen(budget): weights are twentieths, and 12000 is the least    *)
(* common multiple of the normalisers 32, 1000, 15 and 300.                *)

ScoreDen(budget) == 20 * 12000 * budget

\* mutant: every processor counts as a match
processor_score_always(keywords, laptop) == 1

\* 1.0 if some keyword occurs in the processor description, else 0
processor_score(keywords, laptop) ==
    IF \E i \in 1..Len(keywords) : keyword_in(keywords[i], laptop["processor"])
    THEN 1 ELSE 0

\* mutant: the price efficiency is cut off at zero
price_efficiency_part_clamped(importance, laptop, budget) ==
    IF laptop["price"] > budget THEN 0
    ELSE Get(importance, "price", 5) * (budget - laptop["price"]) * 12000

\* importance.get("price", 0.25) * (1 - laptop["price"] / budget)
price_efficiency_part(importance, laptop, budget) ==
    Get(importance, "price", 5) * (budget - laptop["price"]) * 12000

score_of(laptop, usage_type, budget) ==
    LET reqs == profile_or_general(usage_type)
        importance == reqs["importance"]
        price_part == price_efficiency_part(importance, laptop, budget)
        ram_part ==
            Get(importance, "ram", 3) * Min(32, laptop["ram"]) * 375 * budget
        storage_part ==
            Get(importance, "storage", 2) * Min(1000, laptop["storage"]) * 12 * budget
        processor_part ==
            Get(importance, "processor", 4)
              * processor_score(Get(reqs, "processor_keywords", Empty), laptop)
              * 12000 * budget
        gpu_part ==
            IF Get(importance, "gpu", 0) > 0
            THEN Get(importance, "gpu", 0)
                   * (IF has_gpu(laptop) THEN 1 ELSE 0) * 12000 * budget
            ELSE 0
        battery_part ==
            IF Has(laptop, "battery_life")
            THEN Get(importance, "battery_life", 2)
                   * Min(15, laptop["battery_life"]) * 800 * budget
            ELSE 0
        weight_part ==
            IF Has(laptop, "weight")
            THEN Get(importance, "weight", 2)
                   * (300 - Min(300, laptop["weight"])) * 40 * budget
            ELSE 0
    IN  price_part + ram_part + storage_part + processor_part
          + gpu_part + battery_part + weight_part

\* sorted(scored_laptops, key=score, reverse=True): a stable sort, so equal
\* scores keep their input order
\* mutant: an equal score moves ahead of the earlier element
stays_before_strictly(earlier, x) == earlier["score"] > x["score"]

stays_before(earlier, x) == earlier["score"] >= x["score"]

RECURSIVE insert_by_score(_, _)
insert_by_score(sorted, x) ==
    IF sorted = Empty THEN <<x>>
    ELSE IF stays_before(Head(sorted), x)
         THEN <<Head(sorted)>> \o insert_by_score(Tail(sorted), x)
         ELSE <<x>> \o sorted

RECURSIVE sorted_by_score(_)
sorted_by_score(s) ==
    IF s = Empty THEN Empty
    ELSE insert_by_score(sorted_by_score(SubSeq(s, 1, Len(s) - 1)), s[Len(s)])

score_laptops(laptops, usage_type, budget) ==
    IF laptops = Empty THEN Empty
    ELSE sorted_by_score(
             [i \in 1..Len(laptops) |->
                 ("score" :> score_of(laptops[i], usage_type, budget)) @@ laptops[i]])

----------------------------------------------------------------------------
(* RecommendationEngine.get_recommendations.  The outcome records the      *)
(* locals of the call: strict is the first filter result, relaxed tells    *)
(* whether the second filter pass ran, filtered is filtered_laptops when   *)
(* scoring starts; error is the exception that ended the call, if any.     *)

DefaultLimit == 5

NoRequest == [budget |-> 0]

\* if not filtered_laptops
needs_relaxation(filtered_laptops) == filtered_laptops = Empty

\* mutant: budget * 1.2
relaxed_budget10_wide(budget) == 12 * budget

\* budget * 1.1, in tenths
relaxed_budget10(budget) == 11 * budget

\* mutant: the caller's thresholds survive the relaxation
relaxed_args_keeping_caller(usage_type, args) ==
    [prefer_gpu |-> args["prefer_gpu"],
     min_ram |-> Get(args, "min_ram", Get(usage_requirements[usage_type], "min_ram", 4)),
     min_storage |->
        Get(args, "min_storage", Get(usage_requirements[usage_type], "min_storage", 128))]

\* the arguments of the second _filter_laptops call; usage_requirements is
\* indexed without a default here
relaxed_args(usage_type, args) ==
    [prefer_gpu |-> args["prefer_gpu"],
     min_ram |-> Get(usage_requirements[usage_type], "min_ram", 4),
     min_storage |-> Get(usage_requirements[usage_type], "min_storage", 128)]

\* scored_laptops[:limit]
top(scored_laptops, limit) == Take(scored_laptops, limit)

\* mutant: the table has lost the programming profile
key_error_without_programming(usage_type) ==
    ~ Has(usage_requirements, usage_type) \/ usage_type = PROGRAMMING

\* self.usage_requirements[usage_type] raises KeyError
key_error(usage_type) == ~ Has(usage_requirements, usage_type)

get_recommendations(data, args) ==
    LET budget == args["budget"]
        usage_type == args["usage_type"]
        strict == filter_laptops(data, 10 * budget, usage_type, args)
        outcome(relaxed, filtered) ==
            [args |-> args, strict |-> strict, relaxed |-> relaxed,
             filtered |-> filtered, error |-> "",
             result |-> top(score_laptops(filtered, usage_type, budget), args["limit"])]
    IN  IF ~ needs_relaxation(strict)
        THEN outcome(FALSE, strict)
        ELSE IF key_error(usage_type)
        THEN [args |-> args, strict |-> strict, relaxed |-> FALSE,
              filtered |-> strict, error |-> "KeyError", result |-> Empty]
        ELSE outcome(TRUE, filter_laptops(data, relaxed_budget10(budget), usage_type,
                                          relaxed_args(usage_type, args)))

\* mutant: the filter result replaces the catalog
laptop_data_after_filtered_in_place(data, outcome) ==
    IF outcome.args = NoRequest THEN data ELSE outcome.filtered

\* mutant: the score is written into the laptop of the catalog
laptop_data_after_scored_in_place(data, outcome) ==
    [i \in 1..Len(data) |->
        IF \E k \in 1..Len(outcome.filtered) : outcome.filtered[k].id = data[i].id
        THEN ("score" :> score_of(data[i], outcome.args.usage_type, outcome.args.budget))
               @@ data[i]
        ELSE data[i]]

\* self.laptop_data after a call: _filter_laptops builds new lists and
\* _score_laptops writes the score into laptop.copy(), so the list and its
\* laptops are as before
laptop_data_after(data, outcome) == data

\* the history of engine calls, with the call just made
served_with(history, outcome) ==
    IF outcome.args = NoRequest THEN history
    ELSE Append(history, [args |-> outcome.args, error |-> outcome.error,
                          result |-> outcome.result])

----------------------------------------------------------------------------
(* The engine on its own: Init draws a catalog and the arguments of one    *)
(* call, GetRecommendations makes the call.                                *)

Budgets == {500, 1000}

Requests ==
    { [budget |-> b, usage_type |-> u, prefer_gpu |-> g, limit |-> l] @@ br @@ mr @@ ms :
        b \in Budgets, u \in UsageType \cup {UNKNOWN}, g \in BOOLEAN,
        l \in {2, DefaultLimit},
        br \in {Empty, [brand_preference |-> "DELL"]},
        mr \in {Empty, [min_ram |-> 8], [min_ram |-> 32]},
        ms \in {Empty, [min_storage |-> 300]} }

NoCall == [args |-> NoRequest, strict |-> Empty, relaxed |-> FALSE, filtered |-> Empty,
           error |-> "", result |-> Empty]

EngineInit ==
    /\ laptop_data \in Catalogs
    /\ pending \in Requests
    /\ call = NoCall
    /\ conversations = Empty
    /\ response = [message |-> Empty, conversation_id |-> "", extracted_preferences |-> Empty]
    /\ served = Empty
    /\ StoreUnused

GetRecommendations ==
    /\ pending # NoRequest
    /\ call' = get_recommendations(laptop_data, pending)
    /\ laptop_data' = laptop_data_after(laptop_data, call')
    /\ served' = served_with(served, call')
    /\ pending' = NoRequest
    /\ UNCHANGED <<conversations, response, data_file, uuids, ended, heap, executions>>

EngineNext == GetRecommendations

EngineSpec == EngineInit /\ [][EngineNext]_vars

----------------------------------------------------------------------------
(* The engine on a catalog of two products without battery or weight       *)
(* values, one of them without GPU: Init draws the order of the catalog    *)
(* and the arguments of one call.                                          *)

ScenarioDell ==
    [id |-> "1", model |-> "Latitude", brand |-> "Dell", price |-> 1200, processor |-> "i7",
     ram |-> 16, storage |-> 512]

ScenarioApple ==
    [id |-> "2", model |-> "MacBook", brand |-> "Apple", price |-> 1100, processor |-> "M2",
     ram |-> 8, storage |-> 256, gpu |-> "M2 GPU"]

ScenarioCatalogs ==
    { Empty, <<ScenarioDell>>, <<ScenarioApple>>, <<ScenarioDell, ScenarioApple>>,
      <<ScenarioApple, ScenarioDell>> }

ScenarioRequests ==
    { [budget |-> b, usage_type |-> u, prefer_gpu |-> g, limit |-> DefaultLimit] :
        b \in {1100, 1200, 1300}, u \in UsageType, g \in BOOLEAN }

ScenarioInit ==
    /\ laptop_data \in ScenarioCatalogs
    /\ pending \in ScenarioRequests
    /\ call = NoCall
    /\ conversations = Empty
    /\ response = [message |-> Empty, conversation_id |-> "", extracted_preferences |-> Empty]
    /\ served = Empty
    /\ StoreUnused

ScenarioSpec == ScenarioInit /\ [][EngineNext]_vars

----------------------------------------------------------------------------
(* Utterances.  A message is the list of its words: maximal runs of        *)
(* letters or of digits, separated by white space; "$" stands directly     *)
(* before the word that follows it and " " is leading or trailing white    *)
(* space.  The regular expressions of ChatBot.__init__ are matched on      *)
(* these lists; re.search returns the leftmost match.                      *)

\* int(s) of the digit runs of the model
number_value ==
    ("1" :> 1) @@ ("2" :> 2) @@ ("8" :> 8) @@ ("16" :> 16) @@ ("32" :> 32)
    @@ ("100" :> 100) @@ ("256" :> 256) @@ ("512" :> 512) @@ ("800" :> 800)
    @@ ("1000" :> 1000) @@ ("1500" :> 1500) @@ ("2000" :> 2000)
    @@ ("99999" :> 99999) @@ ("120000" :> 120000)

is_number(token) == token \in DOMAIN number_value

\* \w+ matches the whole of any word
is_word(token) == token \notin {"$", " "}

RECURSIVE digit_count(_)
digit_count(n) == IF n < 10 THEN 1 ELSE 1 + digit_count(n \div 10)

RECURSIVE power_of_ten(_)
power_of_ten(k) == IF k = 0 THEN 1 ELSE 10 * power_of_ten(k - 1)

\* the keywords that occur inside a longer word of the model
inner_keywords ==
    ("homework" :> {"work"}) @@ ("coursework" :> {"work"}) @@ ("start" :> {"art"})
    @@ ("smart" :> {"art"}) @@ ("video" :> {"ide"}) @@ ("gamers" :> {"gamer"})
    @@ ("photoshop" :> {"photo"}) @@ ("designer" :> {"design"})
    @@ ("studying" :> {"study"}) @@ ("artist" :> {"art"})

\* the keywords k with k in token.lower()
keywords_in(token) ==
    {Lower(token)} \cup
        (IF Lower(token) \in DOMAIN inner_keywords THEN inner_keywords[Lower(token)]
         ELSE {})

\* lower(token) ends with the pattern
ends_with(token, pattern) ==
    \/ Lower(token) = pattern
    \/ <<Lower(token), pattern>> \in { <<"dislike", "like">> }

\* lower(token) starts with the pattern
starts_with(token, pattern) ==
    \/ Lower(token) = pattern
    \/ <<Lower(token), pattern>> \in { <<"rams", "ram">>, <<"gpus", "gpu">> }

\* the least index of a non-empty set of indices, 0 for the empty set
leftmost(indices) ==
    IF indices = {} THEN 0 ELSE CHOOSE i \in indices : \A j \in indices : i <= j

\* str.strip()
RECURSIVE strip(_)
strip(message) ==
    IF message # Empty /\ Head(message) = " " THEN strip(Tail(message))
    ELSE IF message # Empty /\ message[Len(message)] = " "
    THEN strip(SubSeq(message, 1, Len(message) - 1))
    ELSE message

----------------------------------------------------------------------------
(* ChatBot._extract_preferences *)

\* regex_patterns["budget"][0]: (\d{3,5}(?:,\d{3})*) takes the first five
\* digits of the leftmost run of at least three digits.  The four patterns
\* after it all contain the same group, so they match only where the first
\* one has matched already and are never tried.
budget_match(message) ==
    leftmost({ i \in 1..Len(message) :
                 is_number(message[i]) /\ digit_count(number_value[message[i]]) >= 3 })

budget_group(token) ==
    LET value == number_value[token]
        digits == digit_count(value)
    IN  IF digits <= 5 THEN value ELSE value \div power_of_ten(digits - 5)

extract_budget(message) ==
    IF budget_match(message) = 0 THEN Empty
    ELSE [budget |-> budget_group(message[budget_match(message)])]

\* regex_patterns["usage"], in dictionary order: the alternatives of one
\* word, and those of two words
usage_patterns ==
    << [usage_type |-> GAMING,
        words |-> {"gaming", "games", "gamer", "fps", "shooter", "mmo", "rpg",
                   "strategy", "simulation"},
        phrases |-> {<<"play", "games">>}],
       [usage_type |-> BUSINESS,
        words |-> {"business", "work", "office", "professional", "corporate",
                   "presentations", "spreadsheets", "documents", "meetings"},
        phrases |-> {}],
       [usage_type |-> STUDENT,
        words |-> {"student", "school", "college", "university", "campus", "education",
                   "study", "studying", "coursework", "assignments", "homework"},
        phrases |-> {}],
       [usage_type |-> CREATIVE,
        words |-> {"creative", "design", "art", "artist", "creator", "photo", "video",
                   "editing", "photoshop", "illustrator", "premiere"},
        phrases |-> {<<"after", "effects">>}],
       [usage_type |-> PROGRAMMING,
        words |-> {"programming", "coding", "development", "developer", "software",
                   "code", "compile", "ide"},
        phrases |-> {}] >>

\* re.search(pattern, message, re.IGNORECASE) for some pattern of the category
usage_found(k, message) ==
    \/ \E i \in 1..Len(message) :
          keywords_in(message[i]) \cap usage_patterns[k].words # {}
    \/ \E phrase \in usage_patterns[k].phrases :
          \E i \in 1..(Len(message) - 1) :
              /\ ends_with(message[i], phrase[1])
              /\ starts_with(message[i + 1], phrase[2])

\* mutant: the last category that matches wins
extract_usage_last_match(message) ==
    LET found == { i \in 1..Len(usage_patterns) : usage_found(i, message) }
    IN  IF found = {} THEN Empty
        ELSE [usage_type |->
                 usage_patterns[CHOOSE i \in found : \A j \in found : j <= i].usage_type]

extract_usage(message) ==
    LET k == leftmost({ i \in 1..Len(usage_patterns) : usage_found(i, message) })
    IN  IF k = 0 THEN Empty ELSE [usage_type |-> usage_patterns[k].usage_type]

common_brands ==
    {"dell", "hp", "lenovo", "asus", "acer", "apple", "microsoft", "msi", "razer"}

\* regex_patterns["brand"]: (?:prefer|want|like)\s+(?:a\s+)?(\w+)(?:\s+laptop)?
brand_verb(token) ==
    \E verb \in {"prefer", "want", "like"} : ends_with(token, verb)

brand_match(message) ==
    leftmost({ i \in 1..(Len(message) - 1) :
                 brand_verb(message[i]) /\ is_word(message[i + 1]) })

brand_group(message, i) ==
    IF Lower(message[i + 1]) = "a" /\ i + 2 <= Len(message) /\ is_word(message[i + 2])
    THEN message[i + 2]
    ELSE message[i + 1]

extract_brand(message) ==
    LET i == brand_match(message)
    IN  IF i # 0 /\ Lower(brand_group(message, i)) \in common_brands
        THEN [brand_preference |-> Lower(brand_group(message, i))]
        ELSE Empty

\* the index after an optional unit and an optional "of" that follow a number
after_unit(message, i, units) ==
    LET j == IF i + 1 <= Len(message) /\ Lower(message[i + 1]) \in units
             THEN i + 2 ELSE i + 1
    IN  IF j <= Len(message) /\ Lower(message[j]) = "of" THEN j + 1 ELSE j

\* regex_patterns["ram"]: (\d+)\s*(?:GB|gigs?)?\s*(?:of)?\s*(?:RAM|memory)
ram_match(message) ==
    leftmost({ i \in 1..Len(message) :
                 /\ is_number(message[i])
                 /\ LET j == after_unit(message, i, {"gb", "gig", "gigs"})
                    IN  /\ j <= Len(message)
                        /\ \E word \in {"ram", "memory"} : starts_with(message[j], word) })

extract_ram(message) ==
    IF ram_match(message) = 0 THEN Empty
    ELSE [min_ram |-> number_value[message[ram_match(message)]]]

\* regex_patterns["storage"]:
\* (\d+)\s*(?:GB|TB|gigs?)?\s*(?:of)?\s*(?:storage|SSD|hard drive|HDD)
storage_word_at(message, j) ==
    \/ j <= Len(message)
         /\ \E word \in {"storage", "ssd", "hdd"} : starts_with(message[j], word)
    \/ j + 1 <= Len(message)
         /\ Lower(message[j]) = "hard" /\ starts_with(message[j + 1], "drive")

storage_match(message) ==
    leftmost({ i \in 1..Len(message) :
                 /\ is_number(message[i])
                 /\ storage_word_at(message, after_unit(message, i, {"gb", "tb", "gig", "gigs"})) })

\* "TB" in storage_match.group(0).upper()
storage_in_tb(message, i) ==
    i + 1 <= Len(message) /\ Lower(message[i + 1]) = "tb"

extract_storage(message) ==
    LET i == storage_match(message)
    IN  IF i = 0 THEN Empty
        ELSE [min_storage |->
                 IF storage_in_tb(message, i) THEN number_value[message[i]] * 1000
                 ELSE number_value[message[i]]]

\* (?:dedicated|good|gaming)\s+(?:GPU|graphics)
extract_gpu(message) ==
    IF \E i \in 1..(Len(message) - 1) :
          /\ \E word \in {"dedicated", "good", "gaming"} : ends_with(message[i], word)
          /\ \E word \in {"gpu", "graphics"} : starts_with(message[i + 1], word)
    THEN [prefer_gpu |-> TRUE]
    ELSE Empty

extract_preferences(message) ==
    extract_budget(message) @@ extract_usage(message) @@ extract_brand(message)
      @@ extract_ram(message) @@ extract_storage(message) @@ extract_gpu(message)

----------------------------------------------------------------------------
(* The extraction on its own: Init draws a message, ExtractPreferences     *)
(* applies _extract_preferences to it and leaves the message and the       *)
(* extracted dict in response.                                             *)

ExtractWords ==
    {"$", "100", "1500", "2000", "99999", "16", "GB", "RAM", "SSD", "under", "gaming",
     "homework", "video"}

RECURSIVE MessagesUpTo(_)
MessagesUpTo(n) ==
    IF n = 0 THEN {Empty}
    ELSE LET shorter == MessagesUpTo(n - 1)
         IN  shorter \cup
             { Append(m, w) : m \in {s \in shorter : Len(s) = n - 1}, w \in ExtractWords }

ExtractMessages == MessagesUpTo(MaxTokens) \ {Empty}

ExtractInit ==
    /\ laptop_data = Empty
    /\ pending \in { [message |-> m] : m \in ExtractMessages }
    /\ call = NoCall
    /\ conversations = Empty
    /\ response = [message |-> Empty, conversation_id |-> "", extracted_preferences |-> Empty]
    /\ served = Empty
    /\ StoreUnused

ExtractPreferences ==
    /\ Has(pending, "message")
    /\ response' = [message |-> pending["message"],
                    conversation_id |-> "",
                    extracted_preferences |-> extract_preferences(pending["message"])]
    /\ pending' = NoRequest
    /\ UNCHANGED <<laptop_data, call, conversations, served, data_file, uuids, ended, heap, executions>>

ExtractNext == ExtractPreferences

ExtractSpec == ExtractInit /\ [][ExtractNext]_vars

----------------------------------------------------------------------------
(* ChatBot._is_greeting, _has_sufficient_preferences,                      *)
(* _ask_for_missing_preferences, _get_recommendations,                     *)
(* _format_recommendations                                                 *)

is_greeting(message) ==
    \/ \E i \in 1..Len(message) :
          Lower(message[i]) \in {"hi", "hello", "hey", "greetings", "howdy"}
    \/ \E i \in 1..(Len(message) - 1) :
          /\ Lower(message[i]) = "good"
          /\ Lower(message[i + 1]) \in {"morning", "afternoon", "evening"}
    \/ Len(message) = 1 /\ Lower(message[1]) \in {"start", "begin", "help"}

\* mutant: one of the two fields is enough
has_sufficient_preferences_either(preferences) ==
    Has(preferences, "budget") \/ Has(preferences, "usage_type")

has_sufficient_preferences(preferences) ==
    Has(preferences, "budget") /\ Has(preferences, "usage_type")

GreetingText ==
    <<"Hello! I'm your laptop recommendation assistant. I can help you find the perfect laptop based on your needs. What's your budget for a new laptop?">>

BudgetQuestion == <<"What's your budget for a new laptop?">>

\* the budget is a float and prints as such
UsageQuestion(budget) ==
    <<"Thanks for providing your budget ($", ToString(budget), ".0). What will you primarily use this laptop for? (e.g., gaming, business, student, creative work, programming)">>

BrandQuestion == <<"Do you have a preferred brand? (e.g., Dell, HP, Lenovo, Asus, Apple)">>

OpenQuestion ==
    <<"Can you tell me more about what you're looking for in a laptop? Any specific features that are important to you?">>

NoMatchText ==
    <<"I couldn't find any laptops matching your exact criteria. Would you like to adjust your budget or requirements?">>

\* mutant: the usage question comes before the budget question
ask_for_missing_preferences_usage_first(preferences) ==
    IF ~ Has(preferences, "usage_type")
    THEN UsageQuestion(Get(preferences, "budget", 0))
    ELSE IF ~ Has(preferences, "budget") THEN BudgetQuestion
    ELSE IF ~ Has(preferences, "brand_preference") THEN BrandQuestion
    ELSE OpenQuestion

ask_for_missing_preferences(preferences) ==
    IF ~ Has(preferences, "budget") THEN BudgetQuestion
    ELSE IF ~ Has(preferences, "usage_type") THEN UsageQuestion(preferences["budget"])
    ELSE IF ~ Has(preferences, "brand_preference") THEN BrandQuestion
    ELSE OpenQuestion

\* the keyword arguments of the engine call; limit keeps its default
chat_args(preferences) ==
    [budget |-> Get(preferences, "budget", 1000),
     usage_type |-> Get(preferences, "usage_type", GENERAL),
     prefer_gpu |-> Get(preferences, "prefer_gpu", FALSE),
     limit |-> DefaultLimit]
      @@ [k \in DOMAIN preferences \cap {"brand_preference", "min_ram", "min_storage"}
            |-> preferences[k]]

RECURSIVE format_recommendations(_)
format_recommendations(recommendations) ==
    IF recommendations = Empty THEN Empty
    ELSE LET laptop == Head(recommendations)
         IN  <<laptop["brand"], laptop["model"], ToString(laptop["price"]),
               laptop["processor"], ToString(laptop["ram"]), ToString(laptop["storage"])>>
               \o (IF has_gpu(laptop) THEN <<laptop["gpu"]>> ELSE Empty)
               \o (IF Has(laptop, "battery_life") /\ laptop["battery_life"] # 0
                   THEN <<ToString(laptop["battery_life"])>> ELSE Empty)
               \o format_recommendations(Tail(recommendations))

RecommendationText(recommendations) ==
    <<"Based on your preferences, here are some recommended laptops:">>
      \o format_recommendations(recommendations)
      \o <<"Would you like more details about any of these options? Or would you like to refine your search?">>

----------------------------------------------------------------------------
(* ChatBot.process_message.  Time stamps of the history are left out.      *)

NoId == ""           \* a request without conversation_id

\* str(uuid.uuid4()): an id that no conversation has
new_uuid(convs) ==
    LET k == CHOOSE n \in 1..(Cardinality(DOMAIN convs) + 1) :
                 /\ ("uuid-" \o ToString(n)) \notin DOMAIN convs
                 /\ \A m \in 1..(n - 1) : ("uuid-" \o ToString(m)) \in DOMAIN convs
    IN  "uuid-" \o ToString(k)

new_conversation == [preferences |-> Empty, messages |-> Empty, stage |-> "greeting"]

\* mutant: sufficiency is tested before the greeting
reply_branch_sufficiency_first(stage, message, preferences) ==
    IF has_sufficient_preferences(preferences) THEN "recommend"
    ELSE IF stage = "greeting" \/ is_greeting(message) THEN "greeting"
    ELSE "ask"

\* mutant: a record without a brand is asked for it before the engine runs
reply_branch_brand_first(stage, message, preferences) ==
    IF stage = "greeting" \/ is_greeting(message) THEN "greeting"
    ELSE IF has_sufficient_preferences(preferences) /\ Has(preferences, "brand_preference")
    THEN "recommend"
    ELSE "ask"

\* the branch that answers the turn
reply_branch(stage, message, preferences) ==
    IF stage = "greeting" \/ is_greeting(message) THEN "greeting"
    ELSE IF has_sufficient_preferences(preferences) THEN "recommend"
    ELSE "ask"

\* mutant: the whole engine result is passed on
top_three_uncut(recommendations) == recommendations

\* recommendations[:3]
top_three(recommendations) == Take(recommendations, 3)

\* models.py: the fields of Laptop; Config.extra = "ignore" drops the others
LaptopFields ==
    {"id", "brand", "model", "price", "processor", "ram", "storage", "gpu", "display",
     "battery_life", "weight", "os", "score"}

\* [Laptop(**laptop) for laptop in recommendations]
as_laptops(recommendations) ==
    [i \in 1..Len(recommendations) |->
        [k \in DOMAIN recommendations[i] \cap LaptopFields |-> recommendations[i][k]]]

\* mutant: a field that is set keeps its first value
merge_preferences_first_wins(preferences, extracted_preferences) ==
    Update(extracted_preferences, preferences)

\* mutant: the record is replaced by what the turn extracted
merge_preferences_replacing(preferences, extracted_preferences) ==
    extracted_preferences

\* conversation["preferences"].update(extracted_preferences)
merge_preferences(preferences, extracted_preferences) ==
    Update(preferences, extracted_preferences)

\* mutant: a new round starts from the greeting stage
stage_after_restarting(stage, branch, recommended) ==
    CASE branch = "greeting" -> "getting_preferences"
      [] recommended -> "recommendations"
      [] branch = "recommend" -> "greeting"
      [] OTHER -> stage

\* mutant: an empty result moves the stage back
stage_after_falling_back(stage, branch, recommended) ==
    CASE branch = "greeting" -> "getting_preferences"
      [] recommended -> "recommendations"
      [] branch = "recommend" -> "getting_preferences"
      [] OTHER -> stage

\* mutant: an empty result enters the recommendations stage as well
stage_after_recommending_always(stage, branch, recommended) ==
    CASE branch = "greeting" -> "getting_preferences"
      [] branch = "recommend" -> "recommendations"
      [] OTHER -> stage

\* lines 121 and 133: conversation["stage"] after the turn
stage_after(stage, branch, recommended) ==
    CASE branch = "greeting" -> "getting_preferences"
      [] recommended -> "recommendations"
      [] OTHER -> stage

\* mutant: one preference dict is shared by all conversations
stored_sharing_record(convs, conversation_id, after) ==
    [c \in DOMAIN convs \cup {conversation_id} |->
        IF c = conversation_id THEN after
        ELSE [convs[c] EXCEPT !.preferences = after.preferences]]

\* self.conversations[conversation_id]: each id has a dict of its own
stored(convs, conversation_id, after) == (conversation_id :> after) @@ convs

\* mutant: a turn answered by the greeting drops what it extracted
record_after_unless_greeting(before, preferences, branch) ==
    IF branch = "greeting" THEN before.preferences ELSE preferences

\* lines 116-117: the update is made in place, before the branch is chosen,
\* so the record after the turn is the merged one on every branch
record_after(before, preferences, branch) == preferences

\* lines 161-173 and 144-150: the history, the stage and the ChatResponse
respond(convs, conversation_id, before, message, preferences, branch, engine, text) ==
    LET recommended == branch = "recommend" /\ engine.result # Empty
        user_entry == [text |-> message, sender |-> "user"]
        after ==
            [preferences |-> record_after(before, preferences, branch),
             messages |->
                IF recommended THEN Append(before.messages, user_entry)
                ELSE before.messages \o
                       <<user_entry, [text |-> text, sender |-> "bot"]>>,
             stage |-> stage_after(before.stage, branch, recommended)]
    IN  [conversations |-> stored(convs, conversation_id, after),
         call |-> engine,
         response |->
            [message |-> text,
             conversation_id |-> conversation_id,
             extracted_preferences |-> preferences]
              @@ (IF recommended
                  THEN [recommendations |-> as_laptops(top_three(engine.result))]
                  ELSE Empty)]

\* lines 122-159: the text of the reply
response_text_of(preferences, branch, engine) ==
    CASE branch = "greeting" -> GreetingText
      [] branch = "ask" -> ask_for_missing_preferences(preferences)
      [] engine.result # Empty -> RecommendationText(top_three(engine.result))
      [] OTHER -> NoMatchText

\* line 130: the engine is called on the recommend branch only
engine_call(data, preferences, branch) ==
    IF branch = "recommend" THEN get_recommendations(data, chat_args(preferences))
    ELSE NoCall

answer(convs, data, conversation_id, before, message, preferences, branch, engine) ==
    respond(convs, conversation_id, before, message, preferences, branch, engine,
            response_text_of(preferences, branch, engine))

decide(convs, data, conversation_id, before, message, preferences, branch) ==
    answer(convs, data, conversation_id, before, message, preferences, branch,
           engine_call(data, preferences, branch))

\* lines 111-120: extraction, merge and choice of the branch
merge_and_decide(convs, data, conversation_id, before, message, preferences) ==
    decide(convs, data, conversation_id, before, message, preferences,
           reply_branch(before.stage, message, preferences))

\* lines 96-102: the conversation is created on its first message
in_conversation(convs, data, conversation_id, message) ==
    IF conversation_id \in DOMAIN convs
    THEN merge_and_decide(convs, data, conversation_id, convs[conversation_id], message,
             merge_preferences(convs[conversation_id].preferences,
                               extract_preferences(message)))
    ELSE merge_and_decide(convs, data, conversation_id, new_conversation, message,
             merge_preferences(new_conversation.preferences,
                               extract_preferences(message)))

process_message(convs, data, request) ==
    in_conversation(convs, data,
        IF request.conversation_id # NoId THEN request.conversation_id
        ELSE new_uuid(convs),
        strip(request.message))

----------------------------------------------------------------------------
(* The chatbot: Init draws the catalog the engine was built with, each     *)
(* ProcessMessage step is one process_message call.                        *)

SampleCatalog ==
    [i \in 1..Cardinality(Products) |->
        CHOOSE p \in Products : p.id = ToString(i)]

ChatCatalogs == {Empty, SampleCatalog}

ClientIds == {"c1"}

Utterances ==
    { <<"hello">>,
      <<"gaming", "laptop", "under", "$", "1500">>,
      <<"for", "school">>,
      <<"around", "800", " ">>,
      <<"thanks">>,
      <<"Hi", "i", "want", "a", "dell", "for", "work", "budget", "1000">>,
      <<"16", "GB", "RAM", "and", "good", "graphics">> }

\* the user messages handled so far, over all conversations
RECURSIVE user_messages(_)
user_messages(messages) ==
    IF messages = Empty THEN 0
    ELSE (IF Head(messages).sender = "user" THEN 1 ELSE 0) + user_messages(Tail(messages))

RECURSIVE turns(_, _)
turns(convs, ids) ==
    IF ids = {} THEN 0
    ELSE LET id == CHOOSE c \in ids : TRUE
         IN  user_messages(convs[id].messages) + turns(convs, ids \ {id})

NoResponse == [message |-> Empty, conversation_id |-> NoId, extracted_preferences |-> Empty]

Init ==
    /\ laptop_data \in ChatCatalogs
    /\ pending = NoRequest
    /\ call = NoCall
    /\ conversations = Empty
    /\ response = NoResponse
    /\ served = Empty
    /\ StoreUnused

ProcessMessage(request) ==
    /\ turns(conversations, DOMAIN conversations) < MaxTurns
    /\ LET done == process_message(conversations, laptop_data, request)
       IN  /\ conversations' = done.conversations
           /\ call' = done.call
           /\ response' = done.response
           /\ laptop_data' = laptop_data_after(laptop_data, done.call)
           /\ served' = served_with(served, done.call)
    /\ UNCHANGED <<pending, data_file, uuids, ended, heap, executions>>

Next ==
    \E message \in Utterances :
        \E conversation_id \in ClientIds \cup {NoId, response.conversation_id} :
            ProcessMessage([message |-> message, conversation_id |-> conversation_id])

Spec == Init /\ [][Next]_vars

----------------------------------------------------------------------------
(* main_flask.py: the service.  POST /api/recommendations validates the    *)
(* body with UserPreference and calls the engine; POST /api/chat hands the *)
(* message to process_message.  A body is the dict of its JSON object.     *)

\* UserPreference.budget_must_be_positive
budget_must_be_positive(v) == v > 0

\* UserPreference.ram_must_be_valid
ram_must_be_valid(preferences) ==
    Has(preferences, "min_ram") => preferences["min_ram"] >= 4

\* UserPreference.storage_must_be_valid
storage_must_be_valid(preferences) ==
    Has(preferences, "min_storage") => preferences["min_storage"] >= 128

\* UserPreference(**data) raises no ValidationError
valid_preferences(data) ==
    /\ budget_must_be_positive(data["budget"])
    /\ ram_must_be_valid(data)
    /\ storage_must_be_valid(data)

\* lines 156-163: the keyword arguments of the engine call; an empty brand
\* is passed on as it is
endpoint_args(preferences) ==
    [budget |-> preferences["budget"],
     usage_type |-> preferences["usage_type"],
     prefer_gpu |-> Get(preferences, "prefer_gpu", FALSE),
     limit |-> DefaultLimit]
      @@ [k \in DOMAIN preferences \cap {"brand_preference", "min_ram", "min_storage"}
            |-> preferences[k]]

BadRequest(detail) == [status |-> 400, detail |-> detail]

\* lines 165-178: the LaptopResponse of a call that returned, the error
\* response of one that raised
laptop_response(engine) ==
    [call |-> engine,
     response |->
        IF engine.error # "" THEN [status |-> 500, detail |-> engine.error]
        ELSE [status |-> 200, recommendations |-> as_laptops(engine.result),
              count |-> Len(engine.result)]]

\* get_recommendations of main_flask.py: the engine call it makes, if any,
\* and its response
recommendations_endpoint(catalog, data) ==
    IF ~ Has(data, "budget") \/ ~ Has(data, "usage_type")
    THEN [call |-> NoCall,
          response |-> BadRequest("Budget and usage_type are required fields")]
    ELSE IF data["usage_type"] \notin UsageType
    THEN [call |-> NoCall, response |-> BadRequest("Invalid usage_type")]
    ELSE IF ~ valid_preferences(data)
    THEN [call |-> NoCall, response |-> BadRequest("Invalid preferences")]
    ELSE laptop_response(get_recommendations(catalog, endpoint_args(data)))

\* request bodies of POST /api/recommendations, valid and invalid
EndpointBodies ==
    { [budget |-> 1000, usage_type |-> GAMING],
      [budget |-> 500, usage_type |-> STUDENT, min_ram |-> 4, min_storage |-> 128],
      [budget |-> 0, usage_type |-> GENERAL],
      [budget |-> 500, usage_type |-> GENERAL, min_ram |-> 2],
      [budget |-> 500, usage_type |-> GENERAL, min_storage |-> 64],
      [budget |-> 500, usage_type |-> UNKNOWN],
      [usage_type |-> GENERAL] }

\* the catalog the service was started with: three products of the model
ServiceCatalogs ==
    { [i \in 1..3 |-> CHOOSE p \in Products : p.id = <<"1", "4", "6">>[i]] }

\* messages of POST /api/chat
ServiceUtterances ==
    { <<"hello">>,
      <<"gaming", "laptop", "with", "2", "GB", "RAM", "under", "$", "1500">>,
      <<"for", "school", "around", "800">>,
      <<"256", "GB", "SSD">> }

ServiceInit ==
    /\ laptop_data \in ServiceCatalogs
    /\ pending = NoRequest
    /\ call = NoCall
    /\ conversations = Empty
    /\ response = NoResponse
    /\ served = Empty
    /\ StoreUnused

Recommendations(data) ==
    /\ Len(served) < MaxCalls
    /\ LET done == recommendations_endpoint(laptop_data, data)
       IN  /\ call' = done.call
           /\ response' = done.response
           /\ laptop_data' = laptop_data_after(laptop_data, done.call)
           /\ served' = served_with(served, done.call)
    /\ UNCHANGED <<pending, conversations, data_file, uuids, ended, heap, executions>>

Chat(data) == ProcessMessage(data)

ServiceNext ==
    \/ \E data \in EndpointBodies : Recommendations(data)
    \/ \E message \in ServiceUtterances :
          \E conversation_id \in ClientIds :
              Chat([message |-> message, conversation_id |-> conversation_id])

ServiceSpec == ServiceInit /\ [][ServiceNext]_vars

----------------------------------------------------------------------------
(* data_manager.py: the store of the catalog.  laptops.json holds text     *)
(* that json.load rejects, or a JSON array of objects.                     *)

\* json.load(f)
json_load(file) ==
    IF file.kind = "array" THEN [error |-> "", data |-> file.items]
    ELSE [error |-> "JSONDecodeError", data |-> Empty]

\* str(uuid.uuid4()), the n-th one drawn: never one that was drawn before
uuid4(n) == "uuid4-" \o ToString(n)

\* how many of the first i records have no id
RECURSIVE missing_ids(_, _)
missing_ids(data, i) ==
    IF i = 0 THEN 0
    ELSE missing_ids(data, i - 1) + (IF Has(data[i], "id") THEN 0 ELSE 1)

\* lines 74-76: a record without id gets a fresh one
with_ids(data, n) ==
    [i \in 1..Len(data) |->
        IF Has(data[i], "id") THEN data[i]
        ELSE ("id" :> uuid4(n + missing_ids(data, i))) @@ data[i]]

\* _create_sample_data: the sample list is built; open(json_path, 'w')
\* empties the file and json.dump(laptops, ...) raises NameError, which the
\* except clause of line 284 prints; "return Laptop(**new_laptop)" then
\* raises NameError (new_laptop is no name of the module), which nothing
\* catches.  The file is left as open(..., 'w') made it: existing and empty.
create_sample_data(file, n) ==
    [error |-> "NameError", value |-> Empty, uuids |-> n,
     file |-> [exists |-> TRUE, kind |-> "text", text |-> ""]]

\* _load_from_json; an exception of the try block goes to _create_sample_data
load_from_json(file, n) ==
    LET parsed == json_load(file)
    IN  IF parsed.error = ""
        THEN [error |-> "", value |-> with_ids(parsed.data, n), file |-> file,
              uuids |-> n + missing_ids(parsed.data, Len(parsed.data))]
        ELSE create_sample_data(file, n)

load_laptop_data(file, n) ==
    IF file.exists THEN load_from_json(file, n) ELSE create_sample_data(file, n)

\* get_laptop_by_id: the file is loaded again on every call, and the first
\* laptop with the id is returned; None is the empty list, a laptop found is
\* the list of that laptop
get_laptop_by_id(file, n, laptop_id) ==
    LET loaded == load_laptop_data(file, n)
        laptops == loaded.value
        found == {i \in 1..Len(laptops) : Has(laptops[i], "id") /\ laptops[i]["id"] = laptop_id}
    IN  [error |-> loaded.error,
         value |-> IF loaded.error # "" \/ found = {} THEN Empty
                   ELSE <<laptops[CHOOSE i \in found : \A j \in found : i <= j]>>,
         file |-> loaded.file,
         uuids |-> loaded.uuids]

----------------------------------------------------------------------------
(* The store: Init draws the file, LoadLaptopData is the load that         *)
(* main_flask.py binds to laptop_data, GetLaptopById is one lookup.        *)

\* the objects a file may hold: two with an id, two without
StoredRecords ==
    {p \in Products : p.id \in {"1", "2"}}
      \cup {[k \in DOMAIN p \ {"id"} |-> p[k]] : p \in {q \in Products : q.id \in {"3", "4"}}}

RECURSIVE StoredListsUpTo(_)
StoredListsUpTo(n) ==
    IF n = 0 THEN {Empty}
    ELSE LET shorter == StoredListsUpTo(n - 1)
         IN  shorter \cup
             { Append(c, p) : c \in {s \in shorter : Len(s) = n - 1},
                              p \in StoredRecords }

DataFiles ==
    {NoFile, [exists |-> TRUE, kind |-> "text", text |-> "{not json"]}
      \cup { [exists |-> TRUE, kind |-> "array", items |-> c] :
                c \in {d \in StoredListsUpTo(MaxCatalog) :
                          \A i, j \in 1..Len(d) : i # j => d[i] # d[j]} }

DataInit ==
    /\ laptop_data = Empty
    /\ pending = NoRequest
    /\ call = NoCall
    /\ conversations = Empty
    /\ response = NoResponse
    /\ served = Empty
    /\ data_file \in DataFiles
    /\ uuids = 0
    /\ ended = NoReturn
    /\ heap = Empty
    /\ executions = Empty

\* main_flask.py line 31: laptop_data = data_manager.load_laptop_data()
LoadLaptopData ==
    /\ uuids < MaxCalls
    /\ LET done == load_laptop_data(data_file, uuids)
       IN  /\ ended' = [op |-> "load_laptop_data", error |-> done.error, value |-> done.value]
           /\ laptop_data' = IF done.error = "" THEN done.value ELSE laptop_data
           /\ data_file' = done.file
           /\ uuids' = done.uuids
    /\ UNCHANGED <<pending, call, conversations, response, served, heap, executions>>

\* main_flask.py line 226: data_manager.get_laptop_by_id(laptop_id)
GetLaptopById(laptop_id) ==
    /\ uuids < MaxCalls
    /\ LET done == get_laptop_by_id(data_file, uuids, laptop_id)
       IN  /\ ended' = [op |-> "get_laptop_by_id", laptop_id |-> laptop_id,
                        error |-> done.error, value |-> done.value]
           /\ data_file' = done.file
           /\ uuids' = done.uuids
    /\ UNCHANGED <<laptop_data, pending, call, conversations, response, served, heap, executions>>

DataNext ==
    \/ LoadLaptopData
    \/ \E laptop_id \in {laptop_data[i]["id"] : i \in 1..Len(laptop_data)} \cup {"none"} :
          GetLaptopById(laptop_id)

DataSpec == DataInit /\ [][DataNext]_vars

----------------------------------------------------------------------------
(* Two requests of POST /api/chat served at once.  app.run serves each     *)
(* request in a thread of its own, chatbot is one object of the module and *)
(* no statement of the service takes a lock, so two process_message        *)
(* executions interleave; here a step is one statement that reads or       *)
(* writes shared state (statements on locals ride with the next one).      *)
(* A conversation dict is an object: heap[r] is the dict of reference r,   *)
(* conversations maps an id to a reference, and the local "conversation"   *)
(* of an execution is a reference too.  pc is the line to execute next.    *)

\* an execution that has not run its first statement
started(request) ==
    [request |-> request, pc |-> "93", message |-> Empty, conversation_id |-> NoId,
     conversation |-> 0, extracted_preferences |-> Empty, recommendations |-> NoCall,
     response_text |-> Empty]

\* the conversation that exists when the two requests arrive: it was greeted
GreetedConversation ==
    [preferences |-> Empty,
     messages |-> <<[text |-> <<"hello">>, sender |-> "user"],
                    [text |-> GreetingText, sender |-> "bot"]>>,
     stage |-> "getting_preferences"]

ConcurrentInit ==
    /\ laptop_data = SampleCatalog
    /\ pending = NoRequest
    /\ call = NoCall
    /\ conversations = ("c1" :> 1)
    /\ heap = <<GreetedConversation>>
    /\ response = NoResponse
    /\ served = Empty
    /\ data_file = NoFile
    /\ uuids = 0
    /\ ended = NoReturn
    /\ \E conversation_id \in {"c1", "c2"} :     \* c1 exists, c2 does not
          \E first, second \in { <<"hello">>,
                                 <<"gaming", "laptop", "under", "$", "1500">>,
                                 <<"for", "school">>,
                                 <<"around", "800", " ">> } :
             executions =
                 (1 :> started([message |-> first, conversation_id |-> conversation_id]))
                 @@ (2 :> started([message |-> second, conversation_id |-> conversation_id]))

\* the dict the local "conversation" of execution e refers to
conversation_of(e) == heap[executions[e].conversation]

\* lines 93-94
Strip(e) ==
    /\ executions[e].pc = "93"
    /\ executions' =
          [executions EXCEPT
              ![e].message = strip(executions[e].request.message),
              ![e].conversation_id =
                  IF executions[e].request.conversation_id # NoId
                  THEN executions[e].request.conversation_id
                  ELSE new_uuid(conversations),
              ![e].pc = "97"]
    /\ UNCHANGED <<laptop_data, pending, call, conversations, response, served, data_file, uuids, ended, heap>>

\* line 97: if conversation_id not in self.conversations
TestExists(e) ==
    /\ executions[e].pc = "97"
    /\ executions' =
          [executions EXCEPT
              ![e].pc = IF executions[e].conversation_id \notin DOMAIN conversations
                        THEN "98" ELSE "105"]
    /\ UNCHANGED <<laptop_data, pending, call, conversations, response, served, data_file, uuids, ended, heap>>

\* lines 98-102: a new dict is bound to the id
Create(e) ==
    /\ executions[e].pc = "98"
    /\ heap' = Append(heap, new_conversation)
    /\ conversations' = (executions[e].conversation_id :> (Len(heap) + 1)) @@ conversations
    /\ executions' = [executions EXCEPT ![e].pc = "105"]
    /\ UNCHANGED <<laptop_data, pending, call, response, served, data_file, uuids, ended>>

\* lines 105-109: the user message goes to the dict the id is bound to now
AppendUser(e) ==
    /\ executions[e].pc = "105"
    /\ heap' =
          [heap EXCEPT
              ![conversations[executions[e].conversation_id]].messages =
                  Append(@, [text |-> executions[e].message, sender |-> "user"])]
    /\ executions' = [executions EXCEPT ![e].pc = "112"]
    /\ UNCHANGED <<laptop_data, pending, call, conversations, response, served, data_file, uuids, ended>>

\* lines 112-113: the local reference, and the extraction
Extract(e) ==
    /\ executions[e].pc = "112"
    /\ executions' =
          [executions EXCEPT
              ![e].conversation = conversations[executions[e].conversation_id],
              ![e].extracted_preferences = extract_preferences(executions[e].message),
              ![e].pc = "116"]
    /\ UNCHANGED <<laptop_data, pending, call, conversations, response, served, data_file, uuids, ended, heap>>

\* lines 116-117
UpdatePreferences(e) ==
    /\ executions[e].pc = "116"
    /\ heap' =
          [heap EXCEPT
              ![executions[e].conversation].preferences =
                  merge_preferences(@, executions[e].extracted_preferences)]
    /\ executions' = [executions EXCEPT ![e].pc = "120"]
    /\ UNCHANGED <<laptop_data, pending, call, conversations, response, served, data_file, uuids, ended>>

\* line 120
TestGreeting(e) ==
    /\ executions[e].pc = "120"
    /\ executions' =
          [executions EXCEPT
              ![e].pc = IF conversation_of(e).stage = "greeting"
                           \/ is_greeting(executions[e].message)
                        THEN "121" ELSE "129"]
    /\ UNCHANGED <<laptop_data, pending, call, conversations, response, served, data_file, uuids, ended, heap>>

\* lines 121-126
Greet(e) ==
    /\ executions[e].pc = "121"
    /\ heap' = [heap EXCEPT ![executions[e].conversation].stage = "getting_preferences"]
    /\ executions' = [executions EXCEPT ![e].response_text = GreetingText, ![e].pc = "162"]
    /\ UNCHANGED <<laptop_data, pending, call, conversations, response, served, data_file, uuids, ended>>

\* line 129
TestSufficient(e) ==
    /\ executions[e].pc = "129"
    /\ executions' =
          [executions EXCEPT
              ![e].pc = IF has_sufficient_preferences(conversation_of(e).preferences)
                        THEN "130" ELSE "159"]
    /\ UNCHANGED <<laptop_data, pending, call, conversations, response, served, data_file, uuids, ended, heap>>

\* line 130
Recommend(e) ==
    /\ executions[e].pc = "130"
    /\ LET engine == engine_call(laptop_data, conversation_of(e).preferences, "recommend")
       IN  /\ call' = engine
           /\ laptop_data' = laptop_data_after(laptop_data, engine)
           /\ served' = served_with(served, engine)
           /\ executions' = [executions EXCEPT ![e].recommendations = engine, ![e].pc = "132"]
    /\ UNCHANGED <<pending, conversations, response, data_file, uuids, ended, heap>>

\* lines 132 and 151-155
TestRecommendations(e) ==
    /\ executions[e].pc = "132"
    /\ executions' =
          IF executions[e].recommendations.result # Empty
          THEN [executions EXCEPT ![e].pc = "133"]
          ELSE [executions EXCEPT ![e].response_text = NoMatchText, ![e].pc = "162"]
    /\ UNCHANGED <<laptop_data, pending, call, conversations, response, served, data_file, uuids, ended, heap>>

\* line 133
EnterRecommendations(e) ==
    /\ executions[e].pc = "133"
    /\ heap' = [heap EXCEPT ![executions[e].conversation].stage = "recommendations"]
    /\ executions' = [executions EXCEPT ![e].pc = "145"]
    /\ UNCHANGED <<laptop_data, pending, call, conversations, response, served, data_file, uuids, ended>>

\* lines 136-150: the return that skips the bot message
ReturnRecommendations(e) ==
    /\ executions[e].pc = "145"
    /\ response' =
          [message |-> RecommendationText(top_three(executions[e].recommendations.result)),
           recommendations |-> as_laptops(top_three(executions[e].recommendations.result)),
           conversation_id |-> executions[e].conversation_id,
           extracted_preferences |-> conversation_of(e).preferences]
    /\ executions' = [executions EXCEPT ![e].pc = "done"]
    /\ UNCHANGED <<laptop_data, pending, call, conversations, served, data_file, uuids, ended, heap>>

\* line 159
Ask(e) ==
    /\ executions[e].pc = "159"
    /\ executions' =
          [executions EXCEPT
              ![e].response_text = ask_for_missing_preferences(conversation_of(e).preferences),
              ![e].pc = "162"]
    /\ UNCHANGED <<laptop_data, pending, call, conversations, response, served, data_file, uuids, ended, heap>>

\* lines 162-166
AppendBot(e) ==
    /\ executions[e].pc = "162"
    /\ heap' =
          [heap EXCEPT
              ![executions[e].conversation].messages =
                  Append(@, [text |-> executions[e].response_text, sender |-> "bot"])]
    /\ executions' = [executions EXCEPT ![e].pc = "169"]
    /\ UNCHANGED <<laptop_data, pending, call, conversations, response, served, data_file, uuids, ended>>

\* lines 169-173
Return(e) ==
    /\ executions[e].pc = "169"
    /\ response' =
          [message |-> executions[e].response_text,
           conversation_id |-> executions[e].conversation_id,
           extracted_preferences |-> conversation_of(e).preferences]
    /\ executions' = [executions EXCEPT ![e].pc = "done"]
    /\ UNCHANGED <<laptop_data, pending, call, conversations, served, data_file, uuids, ended, heap>>

ConcurrentNext ==
    \E e \in DOMAIN executions :
        \/ Strip(e)
        \/ TestExists(e)
        \/ Create(e)
        \/ AppendUser(e)
        \/ Extract(e)
        \/ UpdatePreferences(e)
        \/ TestGreeting(e)
        \/ Greet(e)
        \/ TestSufficient(e)
        \/ Recommend(e)
        \/ TestRecommendations(e)
        \/ EnterRecommendations(e)
        \/ ReturnRecommendations(e)
        \/ Ask(e)
        \/ AppendBot(e)
        \/ Return(e)

ConcurrentSpec == ConcurrentInit /\ [][ConcurrentNext]_vars

----------------------------------------------------------------------------
(* Properties of the engine *)

\* the requirement profile a claim speaks of: the category's own, the
\* general one for a category outside the table
ProfileOf(usage_type) ==
    usage_requirements[IF usage_type \in UsageType THEN usage_type ELSE GENERAL]

RealGpu(p) == Has(p, "gpu") /\ p.gpu # "None"

GpuDemanded(a) ==
    \/ (Has(ProfileOf(a.usage_type), "gpu_required")
          /\ ProfileOf(a.usage_type).gpu_required)
    \/ a.prefer_gpu

\* position of a product in the catalog
CatalogPos(p) == CHOOSE i \in 1..Len(laptop_data) : laptop_data[i].id = p.id

\* C2: every returned product costs at most the budget when the relaxation
\* fallback did not fire, and at most 1.10 times the budget when it fired.
PriceWithinBudget ==
    call # NoCall =>
        \A i \in 1..Len(call.result) :
            IF call.relaxed
            THEN 10 * call.result[i].price <= 11 * call.args.budget
            ELSE call.result[i].price <= call.args.budget

\* C2 witness: the fallback fired and returned a product above the budget.
PriceWithinBudgetWitness ==
    /\ call.relaxed
    /\ \E i \in 1..Len(call.result) : call.result[i].price > call.args.budget

\* the constraints of the strict pass, as the claims state them
StrictKeeps(p, a) ==
    LET min_ram == IF Has(a, "min_ram") THEN a.min_ram
                   ELSE ProfileOf(a.usage_type).min_ram
        min_storage == IF Has(a, "min_storage") THEN a.min_storage
                       ELSE ProfileOf(a.usage_type).min_storage
    IN  /\ p.price <= a.budget
        /\ p.ram >= min_ram
        /\ p.storage >= min_storage
        /\ Has(a, "brand_preference") => Lower(p.brand) = Lower(a.brand_preference)
        /\ GpuDemanded(a) => RealGpu(p)

\* C3: the relaxed pass runs exactly when the strict pass is empty, and a
\* non-empty strict pass returns only products that meet the strict
\* constraints.
RelaxIffStrictEmpty ==
    call # NoCall =>
        /\ call.relaxed <=> (call.strict = Empty)
        /\ call.strict # Empty =>
              \A i \in 1..Len(call.result) : StrictKeeps(call.result[i], call.args)

\* C4: the strict pass keeps exactly the catalog products that meet the
\* strict constraints, in catalog order.
StrictPassExact ==
    call # NoCall =>
        call.strict = SelectSeq(laptop_data, LAMBDA p : StrictKeeps(p, call.args))

\* C4 witness: a brand was given and the strict pass kept some products and
\* dropped others.
StrictPassExactWitness ==
    /\ call # NoCall
    /\ Has(call.args, "brand_preference")
    /\ call.strict # Empty
    /\ Len(call.strict) < Len(laptop_data)

\* the constraints of the relaxed pass, as the claim states them
RelaxedKeeps(p, a) ==
    /\ 10 * p.price <= 11 * a.budget
    /\ p.ram >= ProfileOf(a.usage_type).min_ram
    /\ p.storage >= ProfileOf(a.usage_type).min_storage
    /\ GpuDemanded(a) => RealGpu(p)

\* C5: when the fallback fires, the candidates are exactly the catalog
\* products within 1.10 times the budget that meet the profile's own RAM and
\* storage defaults and the GPU requirement, whatever their brand and
\* whatever thresholds the caller gave.
RelaxedPassExact ==
    call.relaxed =>
        call.filtered = SelectSeq(laptop_data, LAMBDA p : RelaxedKeeps(p, call.args))

\* C5 witness: the fallback fired for a caller whose min_ram was below the
\* profile's; it kept a product of another brand and dropped one that the
\* caller's min_ram would have admitted.
RelaxedPassExactWitness ==
    /\ call.relaxed
    /\ Has(call.args, "min_ram")
    /\ Has(call.args, "brand_preference")
    /\ call.args.min_ram < ProfileOf(call.args.usage_type).min_ram
    /\ call.filtered # Empty
    /\ \E i \in 1..Len(laptop_data) :
          /\ 10 * laptop_data[i].price <= 11 * call.args.budget
          /\ laptop_data[i].ram >= call.args.min_ram
          /\ laptop_data[i].ram < ProfileOf(call.args.usage_type).min_ram
          /\ RealGpu(laptop_data[i])

\* a ranks before b: higher score, or equal score and earlier in the catalog
RanksBefore(score_a, a, score_b, b) ==
    \/ score_a > score_b
    \/ score_a = score_b /\ CatalogPos(a) < CatalogPos(b)

\* C6: the output is in non-increasing score order with ties in catalog
\* order, and it is the first min(limit, n) elements of the ranking of the n
\* surviving candidates.
RankedOutput ==
    call # NoCall /\ call.error = "" =>
        LET r == call.result
            f == call.filtered
            returned == { r[i].id : i \in 1..Len(r) }
        IN  /\ Len(r) = Min(call.args.limit, Len(f))
            /\ \A i, j \in 1..Len(r) :
                  i < j => RanksBefore(r[i].score, r[i], r[j].score, r[j])
            /\ \A i \in 1..Len(r) : \E k \in 1..Len(f) :
                  r[i] = ("score" :> r[i].score) @@ f[k]
            /\ \A k \in 1..Len(f) : f[k].id \notin returned =>
                  \A i \in 1..Len(r) :
                      RanksBefore(r[i].score, r[i],
                                  score_of(f[k], call.args.usage_type, call.args.budget),
                                  f[k])

\* C6 witness: three candidates, two of them with equal scores, cut to a
\* limit of two.
RankedOutputWitness ==
    /\ Len(call.filtered) = 3
    /\ call.args.limit = 2
    /\ Len(call.result) = 2
    /\ call.result[1].score = call.result[2].score

\* C9: a category outside the profile table is served exactly as the general
\* category, without an error.
UnknownCategoryAsGeneral ==
    call # NoCall /\ call.args.usage_type = UNKNOWN =>
        /\ call.error = ""
        /\ call.result =
              get_recommendations(laptop_data,
                  [call.args EXCEPT !.usage_type = GENERAL]).result

GamingCapable(p) == RealGpu(p) /\ p.ram >= 16 /\ p.storage >= 512

GamingCall500 ==
    /\ call # NoCall
    /\ call.args.budget = 500
    /\ call.args.usage_type = GAMING
    /\ ~ Has(call.args, "min_ram")
    /\ ~ Has(call.args, "min_storage")

\* C10 as stated: with budget 500 and category gaming, a catalog whose
\* gaming-capable products all cost more than 500 yields the empty list.
GamingScenarioOver500 ==
    /\ GamingCall500
    /\ \A i \in 1..Len(laptop_data) :
          GamingCapable(laptop_data[i]) => laptop_data[i].price > 500
    => call.error = "" /\ call.result = Empty

\* C10 amended: with budget 500 and category gaming, a catalog whose
\* gaming-capable products all cost more than 550 (1.10 times the budget)
\* yields the empty list after both passes, and no error.
GamingScenarioOver550 ==
    /\ GamingCall500
    /\ \A i \in 1..Len(laptop_data) :
          GamingCapable(laptop_data[i]) => laptop_data[i].price > 550
    => call.error = "" /\ call.relaxed /\ call.result = Empty

\* C10 witness: such a call against a catalog that holds a gaming-capable
\* product above 550 and a cheaper product without a GPU.
GamingScenarioWitness ==
    /\ GamingCall500
    /\ call.result = Empty
    /\ \A i \in 1..Len(laptop_data) :
          GamingCapable(laptop_data[i]) => laptop_data[i].price > 550
    /\ \E i \in 1..Len(laptop_data) : GamingCapable(laptop_data[i])
    /\ \E i \in 1..Len(laptop_data) :
          ~ RealGpu(laptop_data[i]) /\ laptop_data[i].price <= 550
             /\ laptop_data[i].ram >= 16 /\ laptop_data[i].storage >= 512

\* C12: a call with a positive budget and one of the six categories ends
\* without an error, whatever the optional arguments and the catalog, and on
\* the empty catalog it returns the empty list.
NoErrorForValidInput ==
    call # NoCall /\ call.args.budget > 0 /\ call.args.usage_type \in UsageType =>
        /\ call.error = ""
        /\ laptop_data = Empty => call.result = Empty

\* C12 witness: a call for a category of the table against the empty catalog,
\* with every optional argument given; both passes ran and the result is the
\* empty list.
NoErrorForValidInputWitness ==
    /\ call # NoCall
    /\ laptop_data = Empty
    /\ call.args.usage_type \in UsageType
    /\ {"brand_preference", "min_ram", "min_storage"} \subseteq DOMAIN call.args
    /\ call.relaxed
    /\ call.error = ""
    /\ call.result = Empty

\* the returned laptop as the catalog holds it
Unscored(r) == [k \in DOMAIN r \ {"score"} |-> r[k]]

\* the weighted price efficiency in the score of a returned laptop, times
\* ScoreDen(budget): its score less the score the same laptop would have if
\* its price were the caller's budget (price efficiency 0)
PriceTerm(r, a) ==
    r.score - score_of([Unscored(r) EXCEPT !.price = a.budget], a.usage_type, a.budget)

\* C23: the price efficiency of every returned laptop is 1 - price/budget
\* for the caller's budget, weighted by the profile's price weight; it is not
\* negative when the relaxation did not fire, and negative only for a laptop
\* above the caller's budget that the relaxed pass admitted.
PriceEfficiencyAgainstBudget ==
    call # NoCall =>
        \A i \in 1..Len(call.result) :
            LET r == call.result[i]
                a == call.args
                weight == Get(ProfileOf(a.usage_type).importance, "price", 5)
            IN  /\ PriceTerm(r, a) = weight * (a.budget - r.price) * 12000
                /\ ~ call.relaxed => PriceTerm(r, a) >= 0
                /\ PriceTerm(r, a) < 0 => call.relaxed /\ r.price > a.budget

\* C23 witness: the relaxed pass admitted a laptop above the budget, which
\* is returned with a negative price term, behind a laptop within the budget.
PriceEfficiencyWitness ==
    /\ call.relaxed
    /\ Len(call.result) >= 2
    /\ call.result[1].price <= call.args.budget
    /\ \E i \in 2..Len(call.result) :
          /\ call.result[i].price > call.args.budget
          /\ PriceTerm(call.result[i], call.args) < 0

\* the weighted sum of a product under the weights price 0.4, processor 0.2,
\* ram 0.1 and storage 0.1, times ScoreDen(budget); matched tells whether the
\* processor is one the general profile names
GeneralWeightedSum(p, budget, matched) ==
    8 * (budget - p.price) * 12000
      + 4 * (IF matched THEN 1 ELSE 0) * 12000 * budget
      + 2 * Min(32, p.ram) * 375 * budget
      + 2 * Min(1000, p.storage) * 12 * budget

\* C22: on the catalog of the Dell (1200, 16 GB, 512 GB, no GPU, i7) and
\* the Apple (1100, 8 GB, 256 GB, GPU, M2), a call with budget 1300 and the
\* general category returns both, the Dell first, each with the weighted sum
\* of its price, processor, RAM and storage sub-scores: 103574400 and
\* 34987200 over ScoreDen(1300).
ScenarioScores ==
    /\ call # NoCall
    /\ laptop_data \in {<<ScenarioDell, ScenarioApple>>, <<ScenarioApple, ScenarioDell>>}
    /\ call.args.budget = 1300
    /\ call.args.usage_type = GENERAL
    /\ ~ call.args.prefer_gpu
    => /\ call.error = ""
       /\ Len(call.result) = 2
       /\ call.result[1] =
             ("score" :> GeneralWeightedSum(ScenarioDell, 1300, TRUE)) @@ ScenarioDell
       /\ call.result[2] =
             ("score" :> GeneralWeightedSum(ScenarioApple, 1300, FALSE)) @@ ScenarioApple
       /\ call.result[1].score = 103574400
       /\ call.result[2].score = 34987200

\* C22 witness: the call of the scenario, on the catalog in the stated order.
ScenarioScoresWitness ==
    /\ call # NoCall
    /\ laptop_data = <<ScenarioDell, ScenarioApple>>
    /\ call.args.budget = 1300
    /\ call.args.usage_type = GENERAL
    /\ ~ call.args.prefer_gpu
    /\ Len(call.result) = 2

----------------------------------------------------------------------------
(* Properties of the conversation *)

\* the conversation of the latest turn
TurnConversation == conversations[response.conversation_id]

\* the text of the latest user message of a history
LastUserText(messages) ==
    messages[CHOOSE i \in 1..Len(messages) :
                /\ messages[i].sender = "user"
                /\ \A j \in (i + 1)..Len(messages) : messages[j].sender # "user"].text

\* C1: the engine is called in a turn only if the merged record of that turn
\* holds both budget and usage_type; a record with usage_type and no budget
\* gets the budget question and no engine call.
SufficiencyGate ==
    response # NoResponse =>
        LET preferences == TurnConversation.preferences
        IN  /\ call # NoCall =>
                  Has(preferences, "budget") /\ Has(preferences, "usage_type")
            /\ Has(preferences, "usage_type") /\ ~ Has(preferences, "budget") =>
                  /\ call = NoCall
                  /\ response.message \in {BudgetQuestion, GreetingText}

\* C1 witness: a later turn of a conversation whose record holds usage_type
\* only, answered with the budget question.
SufficiencyGateWitness ==
    /\ response # NoResponse
    /\ DOMAIN TurnConversation.preferences = {"usage_type"}
    /\ user_messages(TurnConversation.messages) >= 2
    /\ response.message = BudgetQuestion
    /\ call = NoCall

\* C7: in every step, a field of a conversation's record stays in the record;
\* its value changes only in a turn of that conversation whose extraction
\* yields the field, and every field the extraction yields takes the
\* extracted value.
AccumulatorLastWriteWins ==
    [][\A c \in DOMAIN conversations :
          LET old == conversations[c].preferences
              new == conversations'[c].preferences
              extracted == extract_preferences(LastUserText(conversations'[c].messages))
              turn_here == /\ response'.conversation_id = c
                           /\ conversations'[c].messages # conversations[c].messages
          IN  /\ \A f \in DOMAIN old :
                    /\ f \in DOMAIN new
                    /\ new[f] # old[f] => turn_here /\ Has(extracted, f)
              /\ turn_here => \A f \in DOMAIN extracted :
                    f \in DOMAIN new /\ new[f] = extracted[f]]_vars

\* C7 witness: a conversation whose last two user messages both gave a
\* budget, with different values, and whose record holds the later one.
AccumulatorWitness ==
    \E c \in DOMAIN conversations :
        LET m == conversations[c].messages
        IN  \E i, j \in 1..Len(m) :
              /\ i < j
              /\ m[i].sender = "user" /\ m[j].sender = "user"
              /\ m[j].text = LastUserText(m)
              /\ Has(extract_preferences(m[i].text), "budget")
              /\ Has(extract_preferences(m[j].text), "budget")
              /\ extract_preferences(m[i].text).budget # extract_preferences(m[j].text).budget
              /\ conversations[c].preferences.budget = extract_preferences(m[j].text).budget

\* the latest turn took neither the greeting branch: it is not the first
\* message of its conversation and matches no greeting pattern
NonGreetingTurn ==
    /\ response # NoResponse
    /\ user_messages(TurnConversation.messages) >= 2
    /\ ~ is_greeting(LastUserText(TurnConversation.messages))

\* C13: a non-greeting turn whose record lacks budget or usage_type is
\* answered with exactly one question and no engine call: the budget question
\* when the budget is absent, whether or not usage_type is absent too, and the
\* usage question, quoting the budget, when only usage_type is absent.
MissingInfoPrompt ==
    NonGreetingTurn /\ ~ has_sufficient_preferences(TurnConversation.preferences) =>
        LET preferences == TurnConversation.preferences
        IN  /\ call = NoCall
            /\ ~ Has(response, "recommendations")
            /\ ~ Has(preferences, "budget") => response.message = BudgetQuestion
            /\ Has(preferences, "budget") =>
                  response.message = UsageQuestion(preferences.budget)

\* C13 witness: a conversation that was asked the budget question while
\* budget and usage_type were both absent and is now, with the budget given
\* and usage_type absent, asked the usage question.
MissingInfoPromptWitness ==
    /\ NonGreetingTurn
    /\ DOMAIN TurnConversation.preferences = {"budget"}
    /\ response.message = UsageQuestion(TurnConversation.preferences.budget)
    /\ \E i \in 1..Len(TurnConversation.messages) :
          /\ TurnConversation.messages[i].sender = "bot"
          /\ TurnConversation.messages[i].text = BudgetQuestion

\* C14 as stated: on a non-greeting turn with budget and usage_type known the
\* reply is the brand question while the brand is absent and the open-ended
\* follow-up when it is known.
BrandQuestionWhenSufficient ==
    NonGreetingTurn /\ has_sufficient_preferences(TurnConversation.preferences) =>
        IF Has(TurnConversation.preferences, "brand_preference")
        THEN response.message = OpenQuestion
        ELSE response.message = BrandQuestion

\* C14 amended: on a non-greeting turn with budget and usage_type known the
\* engine is called and the reply is the recommendation list or the no-match
\* message, whether or not the brand is known; no turn is answered with the
\* brand question or the open-ended follow-up.
RecommendWhenSufficient ==
    /\ response.message \notin {BrandQuestion, OpenQuestion}
    /\ NonGreetingTurn /\ has_sufficient_preferences(TurnConversation.preferences) =>
          /\ call # NoCall
          /\ response.message \in
                {NoMatchText, RecommendationText(top_three(call.result))}

\* C14 witness: a non-greeting turn with budget and usage_type known and the
\* brand absent, answered with a recommendation list.
RecommendWhenSufficientWitness ==
    /\ NonGreetingTurn
    /\ has_sufficient_preferences(TurnConversation.preferences)
    /\ ~ Has(TurnConversation.preferences, "brand_preference")
    /\ Has(response, "recommendations")

\* the stage pairs a turn may connect
StageMoves ==
    { <<"greeting", "getting_preferences">>,
      <<"getting_preferences", "getting_preferences">>,
      <<"getting_preferences", "recommendations">>,
      <<"recommendations", "recommendations">>,
      <<"recommendations", "getting_preferences">> }

\* C15: in every step the stage of every conversation moves along
\* greeting -> getting_preferences -> recommendations -> getting_preferences
\* or stays; a conversation starts in greeting, never goes from greeting to
\* recommendations in one turn and never comes back to greeting.
StageTransitions ==
    [][\A c \in DOMAIN conversations' :
          <<IF c \in DOMAIN conversations THEN conversations[c].stage ELSE "greeting",
            conversations'[c].stage>> \in StageMoves]_vars

\* C15 witness: a conversation back in getting_preferences after a turn that
\* was answered with recommendations (such a turn leaves no bot message in the
\* history, so the last two user messages are adjacent).
StageTransitionsWitness ==
    /\ response # NoResponse
    /\ TurnConversation.stage = "getting_preferences"
    /\ \E i \in 1..(Len(TurnConversation.messages) - 2) :
          /\ TurnConversation.messages[i].sender = "user"
          /\ TurnConversation.messages[i + 1].sender = "user"
          /\ TurnConversation.messages[i + 2].sender = "bot"
          /\ i + 2 = Len(TurnConversation.messages)

\* C17: when the engine returns a non-empty list in a turn, the reply
\* carries its first min(3, n) elements, in the engine's order.
TopThree ==
    call # NoCall /\ call.result # Empty =>
        /\ Has(response, "recommendations")
        /\ Len(response.recommendations) = Min(3, Len(call.result))
        /\ \A i \in 1..Len(response.recommendations) :
              response.recommendations[i] = call.result[i]

\* C17 witness: the engine returned more than three laptops.
TopThreeWitness ==
    /\ call # NoCall
    /\ Len(call.result) > 3
    /\ Has(response, "recommendations")
    /\ Len(response.recommendations) = 3

\* C8: the first message of a conversation, and every message that matches a
\* greeting pattern, moves the stage to getting_preferences and is answered
\* with the greeting and its budget prompt, without an engine call, whatever
\* the merged record holds.
GreetingPriority ==
    response # NoResponse =>
        LET conv == TurnConversation
        IN  \/ user_messages(conv.messages) = 1
            \/ is_greeting(LastUserText(conv.messages))
            => /\ conv.stage = "getting_preferences"
               /\ response.message = GreetingText
               /\ ~ Has(response, "recommendations")
               /\ call = NoCall

\* C8 witness: a greeting in a later turn of a conversation whose record
\* holds both budget and usage_type.
GreetingPriorityWitness ==
    /\ response # NoResponse
    /\ user_messages(TurnConversation.messages) >= 2
    /\ is_greeting(LastUserText(TurnConversation.messages))
    /\ has_sufficient_preferences(TurnConversation.preferences)
    /\ response.message = GreetingText

\* C24: a turn of one conversation leaves the record, the stage and the
\* history of every other conversation as they were; the only conversation a
\* turn adds is its own, and that one started from an empty record in the
\* greeting stage: its record is what its first message gave, the turn was
\* answered by the greeting and the history holds that one exchange.
OtherConversationsUntouched ==
    [][ /\ \A c \in DOMAIN conversations :
             c # response'.conversation_id =>
                 c \in DOMAIN conversations' /\ conversations'[c] = conversations[c]
        /\ \A c \in DOMAIN conversations' \ DOMAIN conversations :
             /\ c = response'.conversation_id
             /\ Len(conversations'[c].messages) = 2
             /\ conversations'[c].messages[1].sender = "user"
             /\ conversations'[c].preferences =
                    extract_preferences(conversations'[c].messages[1].text)
             /\ conversations'[c].messages[2] = [text |-> GreetingText, sender |-> "bot"]
             /\ conversations'[c].stage = "getting_preferences"
             /\ response'.message = GreetingText ]_vars

\* C24 witness: a turn was served while another conversation holds a
\* different, non-empty record.
OtherConversationsWitness ==
    /\ response.conversation_id \in DOMAIN conversations
    /\ conversations[response.conversation_id].preferences # Empty
    /\ \E c \in DOMAIN conversations \ {response.conversation_id} :
          /\ conversations[c].preferences # Empty
          /\ conversations[c].preferences # conversations[response.conversation_id].preferences

\* the questions of _ask_for_missing_preferences for a record
MissingInfoQuestions(preferences) ==
    {BudgetQuestion, UsageQuestion(Get(preferences, "budget", 0)), BrandQuestion, OpenQuestion}

\* C28: a record that holds budget and usage_type holds both after every
\* later turn; a later turn of that conversation is never answered by a
\* question of _ask_for_missing_preferences, and when its message is not a
\* greeting the engine is called.
SufficiencyPermanent ==
    [][ \A c \in DOMAIN conversations :
            has_sufficient_preferences(conversations[c].preferences) =>
                /\ c \in DOMAIN conversations'
                /\ has_sufficient_preferences(conversations'[c].preferences)
                /\ response'.conversation_id = c =>
                      /\ response'.message \notin
                             MissingInfoQuestions(conversations'[c].preferences)
                      /\ ~ is_greeting(LastUserText(conversations'[c].messages)) =>
                             call' # NoCall ]_vars

\* C28 witness: the first message of the conversation gave budget and
\* usage_type, and its third message, no greeting, was answered by the engine.
SufficiencyPermanentWitness ==
    /\ NonGreetingTurn
    /\ user_messages(TurnConversation.messages) >= 3
    /\ has_sufficient_preferences(extract_preferences(TurnConversation.messages[1].text))
    /\ call # NoCall

\* the user message before the latest one was answered by the greeting
\* and gave both budget and usage_type
SufficientGreetingBefore(messages) ==
    \E i \in 1..(Len(messages) - 2) :
        /\ messages[i].sender = "user"
        /\ messages[i + 1] = [text |-> GreetingText, sender |-> "bot"]
        /\ messages[i + 2].sender = "user"
        /\ \A j \in (i + 3)..Len(messages) : messages[j].sender # "user"
        /\ has_sufficient_preferences(extract_preferences(messages[i].text))

\* C29: a turn answered by the greeting leaves the values of its message in
\* the record; when the message before the latest one was answered by the
\* greeting and gave budget and usage_type, a latest message that is no
\* greeting calls the engine, whatever it gives itself.
GreetingTurnMerged ==
    response # NoResponse =>
        LET messages == TurnConversation.messages
            extracted_preferences == extract_preferences(LastUserText(messages))
        IN  /\ response.message = GreetingText =>
                  \A k \in DOMAIN extracted_preferences :
                      /\ Has(TurnConversation.preferences, k)
                      /\ TurnConversation.preferences[k] = extracted_preferences[k]
            /\ SufficientGreetingBefore(messages) /\ ~ is_greeting(LastUserText(messages)) =>
                  call # NoCall

\* C29 witness: the first message gave budget and usage_type and was greeted;
\* the second message gives no field, is no greeting, and the engine is called.
GreetingTurnMergedWitness ==
    /\ response # NoResponse
    /\ user_messages(TurnConversation.messages) = 2
    /\ SufficientGreetingBefore(TurnConversation.messages)
    /\ ~ is_greeting(LastUserText(TurnConversation.messages))
    /\ extract_preferences(LastUserText(TurnConversation.messages)) = Empty
    /\ call # NoCall

\* C30: between calls no conversation is in the greeting stage; a conversation
\* in the recommendations stage holds budget and usage_type; and a
\* conversation enters the recommendations stage only by its own turn, in
\* which the engine returned a non-empty list.
StageInvariant ==
    /\ [](\A c \in DOMAIN conversations :
            /\ conversations[c].stage # "greeting"
            /\ conversations[c].stage = "recommendations" =>
                  has_sufficient_preferences(conversations[c].preferences))
    /\ [][ \A c \in DOMAIN conversations' :
              /\ conversations'[c].stage = "recommendations"
              /\ (c \in DOMAIN conversations => conversations[c].stage # "recommendations")
              => /\ response'.conversation_id = c
                 /\ call' # NoCall
                 /\ call'.result # Empty ]_vars

\* C30 witness: a turn with a non-empty engine result has put its conversation
\* into the recommendations stage, beside a conversation still collecting.
StageInvariantWitness ==
    /\ response # NoResponse
    /\ TurnConversation.stage = "recommendations"
    /\ call # NoCall
    /\ call.result # Empty
    /\ \E c \in DOMAIN conversations : conversations[c].stage = "getting_preferences"

----------------------------------------------------------------------------
(* Properties of the service *)

\* C11: every engine call, from the recommendations endpoint or from a chat
\* turn, has budget > 0, min_ram unset or at least 4 and min_storage unset or
\* at least 128.
EngineInputsValid ==
    call # NoCall =>
        /\ call.args.budget > 0
        /\ Has(call.args, "min_ram") => call.args.min_ram >= 4
        /\ Has(call.args, "min_storage") => call.args.min_storage >= 128

\* a step that is a chat turn in which the engine returned no laptop
NoMatchTurn ==
    /\ Has(response', "conversation_id")
    /\ call' # NoCall
    /\ call'.result = Empty
    /\ response'.conversation_id \in DOMAIN conversations

\* C16 as stated: a turn in which the engine returns no laptop is answered
\* with the no-match message and no recommendations, and leaves the stage and
\* the preference record of the conversation as they were.
NoMatchKeepsStageAndRecord ==
    [][NoMatchTurn =>
          LET c == response'.conversation_id
          IN  /\ response'.message = NoMatchText
              /\ ~ Has(response', "recommendations")
              /\ conversations'[c].stage = conversations[c].stage
              /\ conversations'[c].preferences = conversations[c].preferences]_vars

\* C16 amended: such a turn is answered with the no-match message and no
\* recommendations and leaves the stage as it was; the preference record is
\* the old record updated with what the turn's utterance yields, and nothing
\* else of it changes.
NoMatchKeepsStage ==
    [][NoMatchTurn =>
          LET c == response'.conversation_id
          IN  /\ response'.message = NoMatchText
              /\ ~ Has(response', "recommendations")
              /\ conversations'[c].stage = conversations[c].stage
              /\ conversations'[c].preferences =
                    Update(conversations[c].preferences,
                           extract_preferences(LastUserText(conversations'[c].messages)))]_vars

\* C16 witness: a conversation in the recommendations stage whose latest
\* turn got the no-match message.
NoMatchKeepsStageWitness ==
    /\ Has(response, "conversation_id")
    /\ response.conversation_id \in DOMAIN conversations
    /\ call # NoCall
    /\ call.result = Empty
    /\ response.message = NoMatchText
    /\ conversations[response.conversation_id].stage = "recommendations"

CatalogNeverChanged ==
    /\ [][laptop_data' = laptop_data]_vars
    /\ [](\A i \in 1..Len(laptop_data) : ~ Has(laptop_data[i], "score"))
    /\ [](\A i \in 1..Len(call.result) : Has(call.result[i], "score"))

\* C19 witness: the endpoint and a chat turn have both been served laptops
\* from the catalog.
CatalogNeverChangedWitness ==
    /\ laptop_data # Empty
    /\ \E i, j \in 1..Len(served) :
          /\ served[i].args.budget = 1500 /\ served[i].result # Empty
          /\ served[j].args.budget = 500 /\ served[j].result # Empty

----------------------------------------------------------------------------
(* Properties of the extraction *)

\* a token $N with N in [100, 99999] stands at position i of the message
DollarToken(message, i) ==
    /\ i + 1 <= Len(message)
    /\ message[i] = "$"
    /\ is_number(message[i + 1])
    /\ number_value[message[i + 1]] >= 100
    /\ number_value[message[i + 1]] <= 99999

\* C20: for every message that holds a token $N with N in [100, 99999], the
\* extraction yields budget = N and takes neither min_ram nor min_storage
\* from the digits of that token.
DollarTokenSetsBudget ==
    \A i \in 1..Len(response.message) :
        DollarToken(response.message, i) =>
            /\ Has(response.extracted_preferences, "budget")
            /\ response.extracted_preferences.budget = number_value[response.message[i + 1]]
            /\ ram_match(response.message) # i + 1
            /\ storage_match(response.message) # i + 1

\* the categories with trigger patterns, in the order of the extraction
CategoryOrder == <<GAMING, BUSINESS, STUDENT, CREATIVE, PROGRAMMING>>

\* some trigger pattern of the k-th category matches the message
CategoryMatches(k, message) ==
    /\ usage_patterns[k].usage_type = CategoryOrder[k]
    /\ usage_found(k, message)

\* C21: the extracted usage_type is the first category, in the order gaming,
\* business, student, creative, programming, with a trigger pattern matching
\* the message; the field is unset when no category matches, and it is never
\* general.
FirstMatchingCategory ==
    response.message # Empty =>
        LET message == response.message
            extracted == response.extracted_preferences
        IN  /\ \A k \in 1..Len(CategoryOrder) :
                  /\ CategoryMatches(k, message)
                  /\ \A j \in 1..(k - 1) : ~ CategoryMatches(j, message)
                  => Has(extracted, "usage_type") /\ extracted.usage_type = CategoryOrder[k]
            /\ (\A k \in 1..Len(CategoryOrder) : ~ CategoryMatches(k, message))
                  => ~ Has(extracted, "usage_type")
            /\ Has(extracted, "usage_type") => extracted.usage_type # GENERAL

\* C21 witness: a message that triggers two categories ("homework" holds
\* "work", a business trigger, and is a student trigger itself) and got the
\* earlier one.
FirstMatchingCategoryWitness ==
    /\ response.message # Empty
    /\ CategoryMatches(2, response.message)
    /\ CategoryMatches(3, response.message)
    /\ ~ CategoryMatches(1, response.message)
    /\ Has(response.extracted_preferences, "usage_type")
    /\ response.extracted_preferences.usage_type = BUSINESS

----------------------------------------------------------------------------
(* Properties of the store *)

\* C26: get_laptop_by_id of the id of a laptop that load_laptop_data
\* returned ends without error and returns that laptop, also when the stored
\* object had no id.
StableIdentifiers ==
    ended.op = "get_laptop_by_id" =>
        \A i \in 1..Len(laptop_data) :
            laptop_data[i]["id"] = ended.laptop_id =>
                ended.error = "" /\ ended.value = <<laptop_data[i]>>

\* C27: load_laptop_data, called when laptops.json does not exist or holds
\* text that is not JSON, ends without error and returns a non-empty list.
SampleDataWithoutFile ==
    [][ (~ data_file.exists \/ data_file.kind = "text")
        /\ ended'.op = "load_laptop_data"
        => ended'.error = "" /\ ended'.value # Empty ]_vars

----------------------------------------------------------------------------
(* Properties of the concurrent executions *)

\* the conversations as dicts
Dereferenced == [id \in DOMAIN conversations |-> heap[conversations[id]]]

\* the conversations after the two requests, served one after the other
Serial(first, second) ==
    process_message(
        process_message(("c1" :> GreetedConversation), laptop_data, first).conversations,
        laptop_data, second).conversations

AllDone == \A e \in DOMAIN executions : executions[e].pc = "done"

\* C25: when both executions for the same id have returned, the
\* conversations are those of one of the two serial orders, the history of
\* the conversation holds the user message of either request and its record
\* holds every field either message gave.
SerialOutcome ==
    executions # Empty /\ AllDone =>
        /\ Dereferenced \in
              {Serial(executions[1].request, executions[2].request),
               Serial(executions[2].request, executions[1].request)}
        /\ \A e \in DOMAIN executions :
              LET conversation == Dereferenced[executions[e].conversation_id]
              IN  /\ \E i \in 1..Len(conversation.messages) :
                        conversation.messages[i] =
                            [text |-> executions[e].message, sender |-> "user"]
                  /\ \A k \in DOMAIN executions[e].extracted_preferences :
                        Has(conversation.preferences, k)

====
